---------------------------- MODULE Spec2Model ----------------------------
(***************************************************************************)
(* Model of the consistent-hash ring of                                    *)
(* source/common/upstream/ring_hash_lb.cc: the Ring constructor (weighted  *)
(* virtual-node generation, sort, optional shard index, statistics) and    *)
(* Ring::chooseHost (binary search over the full ring or a shard window,   *)
(* then the retry offset).                                                 *)
(*                                                                         *)
(* Hashes are HashBits wide instead of 64 so that every hash value can be  *)
(* enumerated; the shift cap (64), the top-bit mask (0x8000...) and the    *)
(* initial shift follow the width.  A double is a binary floating-point    *)
(* number with MantBits bits of precision instead of 53, rounded to        *)
(* nearest, ties to even; it is written as the fraction num / den in       *)
(* lowest terms, den a power of two.                                       *)
(***************************************************************************)
EXTENDS Integers, Sequences, FiniteSets, TLC

\* ---- bounds of the model ------------------------------------------------
HashBits == 2
MantBits == 3
MaxHosts == 3
MaxRingSize == 3
MaxAttempt == 2

\* Initial value of rshift_to_shard (declared in ring_hash_lb.h), on the
\* scale of HashBits-wide hashes.
RShiftInit == 1

Hashes == 0 .. (2 ^ HashBits - 1)
HostIds == 1 .. MaxHosts
NoHost == 0

VARIABLES
  flag,                     \* runtime feature envoy.reloadable_features.shard_ringhash
  pc,                       \* "new", "built" (end of the constructor body), "ready", "search"
  normalized_host_weights,  \* constructor argument: the weights (doubles), in input order
  min_ring_size,            \* constructor argument
  max_ring_size,            \* constructor argument
  scale,                    \* constructor local (line 176), a double
  ring_size,                \* constructor local (line 181)
  ring_,                    \* sequence of [hash_, host_]
  ring_shard_,              \* start indices of the shards (0-based values)
  rshift_to_shard,
  stats_,                   \* the three gauges; set = FALSE until the constructor writes them
  host_hashes,              \* constructor locals per host: current_hashes on entry,
                            \* target_hashes after line 218, and i
  inexact,                  \* some floating-point operation of the constructor rounded
  built_sharded,            \* the constructor took the branch of line 252
  h, attempt,               \* arguments of the lookup in progress or last returned
  lowp, highp, midp,
  window,                   \* "none", "shard" or "full": the branch of line 97 taken
  result,                   \* host returned by the last lookup, NoHost for nullptr
  fault                     \* vector read outside its bounds by the last operation

vars == <<flag, pc, normalized_host_weights, min_ring_size, max_ring_size, scale, ring_size,
          ring_, ring_shard_, rshift_to_shard, stats_, host_hashes, inexact, built_sharded,
          h, attempt, lowp, highp, midp, window, result, fault>>

\* The constructor's arguments and locals, and the fields of the Ring.
ctorVars == <<normalized_host_weights, min_ring_size, max_ring_size, scale, ring_size,
              host_hashes, inexact>>
ringVars == <<ring_, ring_shard_, rshift_to_shard, stats_, built_sharded>>
lookupVars == <<h, attempt, lowp, highp, midp, window, result>>

\* ---- arithmetic helpers -------------------------------------------------
Min(a, b) == IF b < a THEN b ELSE a
Max(a, b) == IF a < b THEN b ELSE a
CeilDiv(a, b) == (a + b - 1) \div b

\* ---- double arithmetic --------------------------------------------------
RECURSIVE Reduce(_, _)
Reduce(n, d) == IF d > 1 /\ n % 2 = 0 THEN Reduce(n \div 2, d \div 2) ELSE [num |-> n, den |-> d]

\* Nearest integer to a / b, ties to even.
RoundEven(a, b) ==
  LET q == a \div b
      r == a % b
  IN IF 2 * r < b THEN q
     ELSE IF 2 * r > b THEN q + 1
     ELSE IF q % 2 = 0 THEN q ELSE q + 1

\* Largest k with 2^k * b <= a  (a >= b);  smallest j with a * 2^j >= b  (a < b).
RECURSIVE ExpUp(_, _, _)
ExpUp(a, b, k) == IF 2 ^ (k + 1) * b <= a THEN ExpUp(a, b, k + 1) ELSE k

RECURSIVE ExpDown(_, _, _)
ExpDown(a, b, j) == IF a * 2 ^ j >= b THEN j ELSE ExpDown(a, b, j + 1)

\* The double nearest to the non-negative rational a / b.
Round(a, b) ==
  IF a = 0 THEN [num |-> 0, den |-> 1]
  ELSE LET e == IF a >= b THEN ExpUp(a, b, 0) ELSE -ExpDown(a, b, 1)
           ulp == e - MantBits + 1
       IN IF ulp >= 0
          THEN [num |-> RoundEven(a, b * 2 ^ ulp) * 2 ^ ulp, den |-> 1]
          ELSE Reduce(RoundEven(a * 2 ^ (-ulp), b), 2 ^ (-ulp))

FromInt(n) == Round(n, 1)
FMul(x, y) == Round(x.num * y.num, x.den * y.den)
FDiv(x, y) == Round(x.num * y.den, x.den * y.num)
FAdd(x, y) == Round(x.num * y.den + y.num * x.den, x.den * y.den)
FLess(x, y) == x.num * y.den < y.num * x.den
FCeil(x) == CeilDiv(x.num, x.den)

\* The operation's result differs from the exact one (the IEEE inexact condition).
MulInexact(x, y) == FMul(x, y).num * (x.den * y.den) # (x.num * y.num) * FMul(x, y).den
DivInexact(x, y) == FDiv(x, y).num * (x.den * y.num) # (x.num * y.den) * FDiv(x, y).den
AddInexact(x, y) ==
  FAdd(x, y).num * (x.den * y.den) # (x.num * y.den + y.num * x.den) * FAdd(x, y).den

\* ---- the constructor's inputs -------------------------------------------
\* Weights are the doubles n / 2^MantBits, 0 < n <= 2^MantBits.
WeightValues == {Round(n, 2 ^ MantBits) : n \in 1 .. 2 ^ MantBits}

RECURSIVE SumNum(_, _)
SumNum(w, k) == IF k > Len(w) THEN 0 ELSE w[k].num * ((2 ^ MantBits) \div w[k].den) + SumNum(w, k + 1)

\* Non-empty weight vectors whose weights sum to exactly 1.
WeightVectors ==
  {w \in UNION {[1 .. n -> WeightValues] : n \in 1 .. MaxHosts} : SumNum(w, 1) = 2 ^ MantBits}

\* min_normalized_weight as the caller passes it: the smallest weight.
RECURSIVE MinWeight(_)
MinWeight(w) ==
  IF Len(w) = 1 THEN w[1]
  ELSE LET m == MinWeight(Tail(w)) IN IF FLess(m, w[1]) THEN m ELSE w[1]

\* ---- Ring::Ring: scale and ring_size (lines 176-181) --------------------
\* std::min(std::ceil(min_normalized_weight * min_ring_size) / min_normalized_weight,
\*          static_cast<double>(max_ring_size))
Scale(mnw, minrs, maxrs) ==
  LET up == FDiv(FromInt(FCeil(FMul(mnw, FromInt(minrs)))), mnw)
  IN IF FLess(FromInt(maxrs), up) THEN FromInt(maxrs) ELSE up

ScaleInexact(mnw, minrs, maxrs) ==
  \/ MulInexact(mnw, FromInt(minrs))
  \/ DivInexact(FromInt(FCeil(FMul(mnw, FromInt(minrs)))), mnw)

\* ---- Ring::Ring: the running-sum loops (lines 203-240) ------------------
\* Variant of InnerLoop that stops one pass early.
RECURSIVE InnerLoopShort(_, _)
InnerLoopShort(current_hashes, target_hashes) ==
  IF FLess(FAdd(current_hashes, FromInt(1)), target_hashes)
  THEN 1 + InnerLoopShort(FAdd(current_hashes, FromInt(1)), target_hashes)
  ELSE 0

\* Variant of InnerLoop that tests current_hashes <= target_hashes.
RECURSIVE InnerLoopInclusive(_, _)
InnerLoopInclusive(current_hashes, target_hashes) ==
  IF ~FLess(target_hashes, current_hashes)
  THEN 1 + InnerLoopInclusive(FAdd(current_hashes, FromInt(1)), target_hashes)
  ELSE 0

\* Lines 219-237: the number of passes of the inner loop.
RECURSIVE InnerLoop(_, _)
InnerLoop(current_hashes, target_hashes) ==
  IF FLess(current_hashes, target_hashes)
  THEN 1 + InnerLoop(FAdd(current_hashes, FromInt(1)), target_hashes)
  ELSE 0

\* Variant of HostLoop that carries one entry too many to the next host.
RECURSIVE HostLoopCarryOne(_, _, _, _, _)
HostLoopCarryOne(w, k, current_hashes, target_hashes, sc) ==
  IF k > Len(w) THEN <<>>
  ELSE LET target == FAdd(target_hashes, FMul(sc, w[k]))
           i == InnerLoop(current_hashes, target)
       IN <<[entry |-> current_hashes, target |-> target, i |-> i,
             inexact |-> MulInexact(sc, w[k]) \/ AddInexact(target_hashes, FMul(sc, w[k]))]>>
          \o HostLoopCarryOne(w, k + 1, FromInt(FCeil(current_hashes) + i + 1), target, sc)

RECURSIVE HostLoop(_, _, _, _, _)
HostLoop(w, k, current_hashes, target_hashes, sc) ==
  IF k > Len(w) THEN <<>>
  ELSE LET target == FAdd(target_hashes, FMul(sc, w[k]))
           i == InnerLoop(current_hashes, target)
       IN <<[entry |-> current_hashes, target |-> target, i |-> i,
             inexact |-> MulInexact(sc, w[k]) \/ AddInexact(target_hashes, FMul(sc, w[k]))]>>
          \o HostLoop(w, k + 1, FromInt(FCeil(current_hashes) + i), target, sc)

\* The hosts of the entries pushed at line 233, in push order.
RECURSIVE PushedHosts(_, _)
PushedHosts(hh, k) ==
  IF k > Len(hh) THEN <<>>
  ELSE [j \in 1 .. hh[k].i |-> k] \o PushedHosts(hh, k + 1)

\* ---- Ring::Ring: std::sort (lines 242-244) ------------------------------
IsSorted(r) == \A k \in 1 .. Len(r) - 1 : r[k].hash_ <= r[k + 1].hash_

\* std::sort is not stable: every ascending arrangement is a possible outcome.
SortedRings(pushed) ==
  {r \in {[k \in 1 .. Len(pushed) |-> pushed[p[k]]] : p \in Permutations(1 .. Len(pushed))} :
     IsSorted(r)}

\* ---- Ring::Ring: shard index (lines 252-296) ----------------------------
RECURSIVE MsbLoop(_, _)
MsbLoop(n, msb) == IF n # 0 THEN MsbLoop(n \div 2, msb + 1) ELSE msb

Msb(hash) == MsbLoop(hash \div 2, 0)

NewRshift(rshift, msb) == IF rshift + msb > HashBits THEN HashBits ELSE rshift + msb

ShiftTwice(x, rshift) == (x \div (2 ^ (rshift - 1))) \div 2

RECURSIVE ShardLoop(_, _, _, _, _)
ShardLoop(r, k, ring_index, prev_shard, rshift) ==
  IF k > Len(r) THEN <<>>
  ELSE LET current_shard == ShiftTwice(r[k].hash_, rshift)
       IN IF current_shard # prev_shard
          THEN <<ring_index>> \o ShardLoop(r, k + 1, ring_index + 1, current_shard, rshift)
          ELSE ShardLoop(r, k + 1, ring_index + 1, prev_shard, rshift)

BuildShards(r, size, rshift) ==
  (IF r # <<>> THEN <<0>> \o ShardLoop(r, 1, 1, 0, rshift) ELSE <<>>) \o <<size>>

\* ---- Ring::Ring: statistics (lines 205-206, 238-239, 298-300) -----------
RECURSIVE MinHashes(_, _)
MinHashes(hh, acc) == IF hh = <<>> THEN acc ELSE MinHashes(Tail(hh), Min(Head(hh).i, acc))

RECURSIVE MaxHashes(_, _)
MaxHashes(hh, acc) == IF hh = <<>> THEN acc ELSE MaxHashes(Tail(hh), Max(Head(hh).i, acc))

NoStats == [set |-> FALSE, size |-> 0, min_hashes_per_host |-> 0, max_hashes_per_host |-> 0]

\* ---- Init ---------------------------------------------------------------
Zero == [num |-> 0, den |-> 1]

Init ==
  /\ flag \in BOOLEAN
  /\ pc = "new"
  /\ normalized_host_weights = <<>>
  /\ min_ring_size = 0
  /\ max_ring_size = 0
  /\ scale = Zero
  /\ ring_size = 0
  /\ ring_ = <<>>
  /\ ring_shard_ = <<>>
  /\ rshift_to_shard = RShiftInit
  /\ stats_ = NoStats
  /\ host_hashes = <<>>
  /\ inexact = FALSE
  /\ built_sharded = FALSE
  /\ h = 0
  /\ attempt = 0
  /\ lowp = 0
  /\ highp = 0
  /\ midp = 0
  /\ window = "none"
  /\ result = NoHost
  /\ fault = "none"

\* ---- Ring::Ring (lines 159-301) -----------------------------------------
\* Lines 167-169: no hosts, nothing is built and no gauge is written.
RingEmptyHosts ==
  /\ pc = "new"
  /\ \E minrs \in 0 .. MaxRingSize : \E maxrs \in minrs .. MaxRingSize :
       /\ min_ring_size' = minrs
       /\ max_ring_size' = maxrs
  /\ pc' = "built"
  /\ UNCHANGED <<flag, normalized_host_weights, scale, ring_size, host_hashes, inexact, fault>>
  /\ UNCHANGED ringVars
  /\ UNCHANGED lookupVars

\* Lines 171-300.  The hash of each key is an arbitrary HashBits-wide value.
RingBuild ==
  /\ pc = "new"
  /\ \E w \in WeightVectors :
     \E minrs \in 0 .. MaxRingSize : \E maxrs \in minrs .. MaxRingSize :
     \E sc \in {Scale(MinWeight(w), minrs, maxrs)} :
     \E hh \in {HostLoop(w, 1, Zero, Zero, sc)} :
     \E hosts \in {PushedHosts(hh, 1)} :
     \E hashes \in [1 .. Len(hosts) -> Hashes] :
     \E sorted \in SortedRings([k \in 1 .. Len(hosts) |->
                                  [hash_ |-> hashes[k], host_ |-> hosts[k]]]) :
       /\ normalized_host_weights' = w
       /\ min_ring_size' = minrs
       /\ max_ring_size' = maxrs
       /\ scale' = sc
       /\ ring_size' = FCeil(sc)
       /\ host_hashes' = hh
       /\ inexact' = (ScaleInexact(MinWeight(w), minrs, maxrs)
                      \/ \E k \in 1 .. Len(hh) : hh[k].inexact)
       /\ ring_' = sorted
       /\ stats_' = [set |-> TRUE, size |-> FCeil(sc),
                     min_hashes_per_host |-> MinHashes(hh, FCeil(sc)),
                     max_hashes_per_host |-> MaxHashes(hh, 0)]
       /\ built_sharded' = flag
       /\ IF flag
          THEN \* line 257 reads ring_[0]; on an empty ring the value read is arbitrary
               \E n \in (IF sorted = <<>> THEN Hashes ELSE {sorted[1].hash_}) :
                 /\ rshift_to_shard' = NewRshift(rshift_to_shard, Msb(n))
                 /\ ring_shard_' = BuildShards(sorted, FCeil(sc),
                                               NewRshift(rshift_to_shard, Msb(n)))
                 /\ fault' = IF sorted = <<>> THEN "ring_" ELSE "none"
          ELSE UNCHANGED <<rshift_to_shard, ring_shard_, fault>>
  /\ pc' = "built"
  /\ UNCHANGED flag
  /\ UNCHANGED lookupVars

\* Line 301: the constructor returns; its arguments and locals are gone.
RingReturn ==
  /\ pc = "built"
  /\ pc' = "ready"
  /\ normalized_host_weights' = <<>>
  /\ min_ring_size' = 0
  /\ max_ring_size' = 0
  /\ scale' = Zero
  /\ ring_size' = 0
  /\ host_hashes' = <<>>
  /\ inexact' = FALSE
  /\ UNCHANGED <<flag, fault>>
  /\ UNCHANGED ringVars
  /\ UNCHANGED lookupVars

\* ---- the runtime flag is owned by the embedding runtime -----------------
ToggleFlag ==
  /\ flag' = ~flag
  /\ UNCHANGED <<pc, fault>>
  /\ UNCHANGED ctorVars
  /\ UNCHANGED ringVars
  /\ UNCHANGED lookupVars

\* ---- Ring::chooseHost: shard index of a hash (lines 101-108) ------------
\* (h & 0x7FFF...) >> 1 has the second-highest bit clear, so OR-ing 0x4000... adds it.
ShardIndex(hh, rshift) ==
  LET h_msb == (hh \div (2 ^ (HashBits - 1))) % 2
  IN IF h_msb # 0
     THEN (((hh % (2 ^ (HashBits - 1))) \div 2) + 2 ^ (HashBits - 2)) \div (2 ^ (rshift - 1))
     ELSE ShiftTwice(hh, rshift)

\* ---- Ring::chooseHost: one iteration of the search loop (lines 121-146) -
\* Signed division by 2 truncates toward zero.
Half(x) == IF x >= 0 THEN x \div 2 ELSE -((-x) \div 2)

\* Variant of LoopBody whose match test reads h >= midval1.
LoopBodyInclusivePrev(r, hh, lo, hi) ==
  LET mid == Half(lo + hi)
  IN IF mid = Len(r)
     THEN [lowp |-> lo, highp |-> hi, midp |-> 0, exit |-> "wrap"]
     ELSE LET midval == r[mid + 1].hash_
              midval1 == IF mid = 0 THEN 0 ELSE r[mid].hash_
          IN IF hh <= midval /\ hh >= midval1
             THEN [lowp |-> lo, highp |-> hi, midp |-> mid, exit |-> "match"]
             ELSE LET lo2 == IF midval < hh THEN mid + 1 ELSE lo
                      hi2 == IF midval < hh THEN hi ELSE mid - 1
                  IN IF lo2 > hi2
                     THEN [lowp |-> lo2, highp |-> hi2, midp |-> 0, exit |-> "low>high"]
                     ELSE [lowp |-> lo2, highp |-> hi2, midp |-> mid, exit |-> "none"]

\* Variant of LoopBody that keeps midp inside the window: highp = midp.
LoopBodyKeepsMid(r, hh, lo, hi) ==
  LET mid == Half(lo + hi)
  IN IF mid = Len(r)
     THEN [lowp |-> lo, highp |-> hi, midp |-> 0, exit |-> "wrap"]
     ELSE LET midval == r[mid + 1].hash_
              midval1 == IF mid = 0 THEN 0 ELSE r[mid].hash_
          IN IF hh <= midval /\ hh > midval1
             THEN [lowp |-> lo, highp |-> hi, midp |-> mid, exit |-> "match"]
             ELSE LET lo2 == IF midval < hh THEN mid + 1 ELSE lo
                      hi2 == IF midval < hh THEN hi ELSE mid
                  IN IF lo2 > hi2
                     THEN [lowp |-> lo2, highp |-> hi2, midp |-> 0, exit |-> "low>high"]
                     ELSE [lowp |-> lo2, highp |-> hi2, midp |-> mid, exit |-> "none"]

LoopBody(r, hh, lo, hi) ==
  LET mid == Half(lo + hi)
  IN IF mid = Len(r)
     THEN [lowp |-> lo, highp |-> hi, midp |-> 0, exit |-> "wrap"]
     ELSE LET midval == r[mid + 1].hash_
              midval1 == IF mid = 0 THEN 0 ELSE r[mid].hash_
          IN IF hh <= midval /\ hh > midval1
             THEN [lowp |-> lo, highp |-> hi, midp |-> mid, exit |-> "match"]
             ELSE LET lo2 == IF midval < hh THEN mid + 1 ELSE lo
                      hi2 == IF midval < hh THEN hi ELSE mid - 1
                  IN IF lo2 > hi2
                     THEN [lowp |-> lo2, highp |-> hi2, midp |-> 0, exit |-> "low>high"]
                     ELSE [lowp |-> lo2, highp |-> hi2, midp |-> mid, exit |-> "none"]

\* The whole loop: the value of midp when it is left.
RECURSIVE Search(_, _, _, _)
Search(r, hh, lo, hi) ==
  LET b == LoopBody(r, hh, lo, hi)
  IN IF b.exit = "none" THEN Search(r, hh, b.lowp, b.highp) ELSE b.midp

\* Lines 151-155.
Retry(r, mid, att) == IF att > 0 THEN (mid + att) % Len(r) ELSE mid

\* ---- Ring::chooseHost (lines 84-118): entry, window selection -----------
chooseHost(hh, att) ==
  /\ pc = "ready"
  /\ h' = hh
  /\ attempt' = att
  /\ IF ring_ = <<>>
     THEN /\ result' = NoHost
          /\ window' = "none"
          /\ fault' = "none"
          /\ UNCHANGED <<pc, lowp, highp, midp>>
     ELSE IF flag
     THEN LET shard_index == ShardIndex(hh, rshift_to_shard)
          IN /\ window' = "shard"
             /\ IF shard_index + 1 < Len(ring_shard_)
                THEN /\ lowp' = ring_shard_[shard_index + 1]
                     /\ highp' = ring_shard_[shard_index + 2]
                     /\ midp' = 0
                     /\ pc' = "search"
                     /\ fault' = "none"
                     /\ result' = NoHost
                ELSE \* ring_shard_ is read past its end: any outcome
                     /\ fault' = "ring_shard_"
                     /\ result' \in HostIds \cup {NoHost}
                     /\ UNCHANGED <<pc, lowp, highp, midp>>
     ELSE /\ window' = "full"
          /\ lowp' = 0
          /\ highp' = Len(ring_)
          /\ midp' = 0
          /\ pc' = "search"
          /\ fault' = "none"
          /\ result' = NoHost
  /\ UNCHANGED flag
  /\ UNCHANGED ctorVars
  /\ UNCHANGED ringVars

\* ---- Ring::chooseHost (lines 120-155): a loop iteration, then the return
SearchStep ==
  /\ pc = "search"
  /\ LET b == LoopBody(ring_, h, lowp, highp)
     IN IF b.exit = "none"
        THEN /\ lowp' = b.lowp
             /\ highp' = b.highp
             /\ midp' = b.midp
             /\ UNCHANGED <<pc, result>>
        ELSE \* the locals die with the call; the returned host stays
             /\ result' = ring_[Retry(ring_, b.midp, attempt) + 1].host_
             /\ lowp' = 0
             /\ highp' = 0
             /\ midp' = 0
             /\ pc' = "ready"
  /\ UNCHANGED <<flag, h, attempt, window, fault>>
  /\ UNCHANGED ctorVars
  /\ UNCHANGED ringVars

Next ==
  \/ RingEmptyHosts
  \/ RingBuild
  \/ RingReturn
  \/ ToggleFlag
  \/ \E hh \in Hashes : \E att \in 0 .. MaxAttempt : chooseHost(hh, att)
  \/ SearchStep

Spec == Init /\ [][Next]_vars


\* The search loop is never starved: a call that entered the loop keeps running.
FairSpec == Spec /\ WF_vars(SearchStep)

\* ======================= properties ======================================
\* Number of ring entries owned by input host k.
CountHost(r, k) == Cardinality({j \in 1 .. Len(r) : r[j].host_ = k})

\* 0-based index of the first entry whose hash is >= hh; 0 when there is none or hh = 0.
ClockwiseIndex(r, hh) ==
  IF hh = 0 \/ \A j \in 1 .. Len(r) : r[j].hash_ < hh
  THEN 0
  ELSE (CHOOSE j \in 1 .. Len(r) :
          r[j].hash_ >= hh /\ \A i \in 1 .. j - 1 : r[i].hash_ < hh) - 1

\* scale of the claims, in exact rational arithmetic:
\* min(ceil(mnw * min_ring_size) / mnw, max_ring_size).
ExactScale(w, minrs, maxrs) ==
  LET m == MinWeight(w)
      up == CeilDiv(m.num * minrs, m.den) * m.den
  IN IF maxrs * m.num < up THEN [num |-> maxrs, den |-> 1] ELSE [num |-> up, den |-> m.num]

\* scale * w[k] as an exact rational.
ExactShare(w, k, minrs, maxrs) ==
  LET s == ExactScale(w, minrs, maxrs)
  IN [num |-> s.num * w[k].num, den |-> s.den * w[k].den]

Built == pc = "built" /\ normalized_host_weights # <<>>

\* C1: a lookup through the full window on a non-empty sorted ring returns
\* entries[(p + attempt) mod N].host, p the first index with hash >= h (0 if
\* none, and 0 for h = 0).
C1_FullWindowLookup ==
  (pc = "ready" /\ window = "full") =>
     /\ IsSorted(ring_)
     /\ result = ring_[((ClockwiseIndex(ring_, h) + attempt) % Len(ring_)) + 1].host_

\* C1 witness: a retry lookup that wrapped past the end of a ring of several
\* entries and returned a host other than the one at the key's own position.
C1_Witness ==
  /\ pc = "ready" /\ window = "full" /\ h > 0 /\ attempt > 0
  /\ Len(ring_) >= 2
  /\ ClockwiseIndex(ring_, h) > 0
  /\ ClockwiseIndex(ring_, h) + attempt >= Len(ring_)
  /\ result # ring_[ClockwiseIndex(ring_, h) + 1].host_

\* C2 (as claimed): on a ring built with the flag enabled, a lookup through the
\* shard window that read ring_shard_ within bounds returns, for attempt = 0,
\* the host the full window [0, ring size] gives on the same entries.
C2_ShardEquivalence ==
  (pc = "ready" /\ window = "shard" /\ built_sharded /\ fault = "none" /\ attempt = 0) =>
     result = ring_[Search(ring_, h, 0, Len(ring_)) + 1].host_

\* C3 (as claimed): with the flag at the same value for construction and
\* lookup, neither the constructor nor chooseHost reads ring_ or ring_shard_
\* outside its bounds.
C3_NoOutOfRangeRead ==
  ((window = "shard" => built_sharded) /\ (window = "full" => ~built_sharded)) =>
     fault = "none"

\* C4 (as claimed): every input host owns at least one entry of the built ring.
C4_EveryHostOwnsEntry ==
  Built => \A k \in 1 .. Len(normalized_host_weights) : CountHost(ring_, k) >= 1

\* C4 (amended): when no operation of the constructor rounded, every input
\* host whose share scale * weight is at least 1 owns at least one entry.
C4_HostWithUnitShareOwnsEntry ==
  (Built /\ ~inexact) =>
     \A k \in 1 .. Len(normalized_host_weights) :
        LET x == ExactShare(normalized_host_weights, k, min_ring_size, max_ring_size)
        IN x.num >= x.den => CountHost(ring_, k) >= 1

\* C4 witness: max_ring_size is smaller than the number of hosts, one host
\* has a share of at least 1 and an entry, another host has none.
C4_Witness ==
  /\ Built /\ ~inexact
  /\ max_ring_size < Len(normalized_host_weights)
  /\ \E k \in 1 .. Len(normalized_host_weights) :
        LET x == ExactShare(normalized_host_weights, k, min_ring_size, max_ring_size)
        IN x.num >= x.den /\ CountHost(ring_, k) >= 1
  /\ \E k \in 1 .. Len(normalized_host_weights) : CountHost(ring_, k) = 0

\* C5 (as claimed): for weights summing to exactly 1 the ring holds between
\* min_ring_size and max_ring_size entries, and exactly ring_size = ceil(scale)
\* of them, the value written to the size gauge.
C5_SizeBounds ==
  Built =>
     /\ min_ring_size <= Len(ring_)
     /\ Len(ring_) <= max_ring_size
     /\ Len(ring_) = ring_size
     /\ stats_.size = Len(ring_)

\* C6: when no operation of the constructor rounded, each input host owns
\* floor(scale * w) or ceil(scale * w) entries.
C6_PerHostCount ==
  (Built /\ ~inexact) =>
     \A k \in 1 .. Len(normalized_host_weights) :
        LET x == ExactShare(normalized_host_weights, k, min_ring_size, max_ring_size)
        IN CountHost(ring_, k) \in {x.num \div x.den, CeilDiv(x.num, x.den)}

\* C6 witness: two hosts with a fractional share, one rounded up and one down.
C6_Witness ==
  /\ Built /\ ~inexact
  /\ \E k \in 1 .. Len(normalized_host_weights) :
        LET x == ExactShare(normalized_host_weights, k, min_ring_size, max_ring_size)
        IN x.num % x.den # 0 /\ CountHost(ring_, k) = CeilDiv(x.num, x.den)
  /\ \E k \in 1 .. Len(normalized_host_weights) :
        LET x == ExactShare(normalized_host_weights, k, min_ring_size, max_ring_size)
        IN x.num % x.den # 0 /\ CountHost(ring_, k) = x.num \div x.den

\* C7: from a window with 0 <= lowp <= highp <= ring size, an iteration of the
\* search loop either leaves the loop (match, wrap at ring size, or lowp >
\* highp, which is what happens when highp becomes -1) or strictly shrinks the
\* window to one that again satisfies 0 <= lowp <= highp <= ring size; and a
\* search that entered the loop leaves it.
C7_LoopStep ==
  (pc = "search" /\ 0 <= lowp /\ lowp <= highp /\ highp <= Len(ring_)) =>
     LET b == LoopBody(ring_, h, lowp, highp)
     IN /\ b.exit \in {"none", "match", "wrap", "low>high"}
        /\ b.exit = "none" =>
              /\ 0 <= b.lowp /\ b.lowp <= b.highp /\ b.highp <= Len(ring_)
              /\ b.highp - b.lowp < highp - lowp
        /\ b.highp = -1 => b.exit = "low>high"

C7_SearchTerminates == [](C7_LoopStep) /\ ((pc = "search") ~> (pc = "ready"))

\* C7 witness: a search over the full window of a ring of several entries,
\* already shrunk by an iteration, whose next iteration sets highp to -1 and
\* leaves through the lowp > highp test.
C7_Witness ==
  /\ pc = "search" /\ window = "full" /\ Len(ring_) >= 2
  /\ 0 <= lowp /\ lowp <= highp /\ highp < Len(ring_)
  /\ LoopBody(ring_, h, lowp, highp).exit = "low>high"
  /\ LoopBody(ring_, h, lowp, highp).highp = -1

\* C8 (as claimed): ring_shard_ starts with 0 and ends with the ring size,
\* and entry k lies in the interval of the i-th distinct shifted hash value.
ShiftedValues(r, k, rshift) == {ShiftTwice(r[j].hash_, rshift) : j \in 1 .. k}

C8_ShardIndex ==
  (pc \in {"built", "ready", "search"} /\ built_sharded /\ ring_ # <<>>) =>
     /\ ring_shard_[1] = 0
     /\ ring_shard_[Len(ring_shard_)] = Len(ring_)
     /\ \A k \in 1 .. Len(ring_) :
           LET i == Cardinality(ShiftedValues(ring_, k, rshift_to_shard))
           IN /\ i + 1 <= Len(ring_shard_)
              /\ ring_shard_[i] <= k - 1
              /\ k - 1 < ring_shard_[i + 1]

\* C9 (as claimed): chooseHost takes the shard window only on a ring whose
\* constructor built ring_shard_, and the full window only on a ring built
\* without it.
C9_PathsMatch ==
  /\ window = "shard" => built_sharded
  /\ window = "full" => ~built_sharded

\* C10 (as claimed): when no operation of the constructor rounded, a host
\* reached with c entries placed gets floor(target_hashes) - c entries.
C10_FloorRule ==
  (Built /\ ~inexact) =>
     \A k \in 1 .. Len(normalized_host_weights) :
        CountHost(ring_, k) =
           (host_hashes[k].target.num \div host_hashes[k].target.den)
              - FCeil(host_hashes[k].entry)

\* C10 (amended): a host reached with c entries placed gets
\* ceil(target_hashes) - c entries.
C10_CeilRule ==
  Built =>
     \A k \in 1 .. Len(normalized_host_weights) :
        CountHost(ring_, k) = FCeil(host_hashes[k].target) - FCeil(host_hashes[k].entry)

\* C10 witness: a host reached with entries already placed and a fractional
\* target, which gets an entry that the floor rule would not give.
C10_Witness ==
  /\ Built /\ ~inexact
  /\ \E k \in 2 .. Len(normalized_host_weights) :
        /\ host_hashes[k].entry.num > 0
        /\ host_hashes[k].target.den > 1
        /\ CountHost(ring_, k) >= 1

=============================================================================
